---- MODULE Spec2Model ----
(***************************************************************************)
(* State-machine model of the deploy command of luma                       *)
(* (src/src/commands/deploy.ts): the release coordinator, the              *)
(* infrastructure verifier, the registry authenticator, the per-server     *)
(* app deployment with its blue-green engine, the service replacement      *)
(* engine and the proxy configuration client.                              *)
(*                                                                         *)
(* Every awaited remote call is one step whose result (true, false, or a   *)
(* raised error) is chosen by the environment.  A raised error runs the    *)
(* catch / finally blocks of the enclosing functions in the same step,     *)
(* since those blocks only log, close the session, or rethrow.             *)
(***************************************************************************)
EXTENDS Integers, Sequences, FiniteSets, TLC

VARIABLES
  run,                   \* number of the current invocation; the release id
  pc,                    \* position of deployCommand
  entryNames,            \* ParsedArgs.entryNames
  forceFlag,             \* ParsedArgs.forceFlag
  deployServicesFlag,    \* ParsedArgs.deployServicesFlag
  dirty,                 \* hasUncommittedChanges was called and answered true
  secrets,               \* keys present in the loaded secret map
  targetEntries,         \* result of identifyTargetEntries
  warnings,              \* names warned about by identifyTargetEntries
  hosts,                 \* Array.from(allTargetServers)
  vi,                    \* index of the verifier's loop over hosts
  missingNetworkServers, \* verifyInfrastructure
  missingProxyServers,   \* verifyInfrastructure
  probed,                \* per host the verifier took up: what its calls gave
  bi,                    \* index of the build loop of deployEntries
  built,                 \* entries whose build/tag and push completed
  ei,                    \* index of the deploy loop over targetEntries
  si,                    \* index of the loop over entry.servers
  hi,                    \* index of the loop over proxy hosts
  bg,                    \* blue-green state of the pair being deployed
  attempt,               \* health probes made for the candidate
  consec,                \* consecutive successful health probes
  probes,                \* results of the health probes of the pair at hand
  auth,                  \* the pull bracket of authenticateAndPullImage
  sess,                  \* remote sessions that are open
  loginsOpen,            \* <<host, registry>> logged in and not logged out
  ops,                   \* kinds of engine operation performed in this run
  attempts,              \* (entry, server) deployments, in order, with verdict
  lastAt,                \* step at which the last failed deployment failed
  proxyCmds,             \* proxy commands issued for the pair being deployed
  proxied,               \* hostnames whose proxy command succeeded in this run
  urls,                  \* urls handed to logger.deploymentComplete
  reported,              \* logger.deploymentComplete was called
  exitCode,              \* exit status of the process, -1 while running
  fatal,                 \* why the run was aborted, "" if it was not
  appC,                  \* app containers: [app][server][release] -> status
  current,               \* release serving each (app, server), -1 if none
  svcC                   \* service containers: [service][server] -> status

vars == <<run, pc, entryNames, forceFlag, deployServicesFlag, dirty, secrets,
          targetEntries, warnings, hosts, vi, missingNetworkServers,
          missingProxyServers, probed, bi, built, ei, si, hi, bg, attempt,
          consec, probes, auth, sess, loginsOpen, ops, attempts, lastAt, proxyCmds,
          proxied, urls, reported, exitCode, fatal, appC, current, svcC>>

argVars == <<entryNames, forceFlag, deployServicesFlag, dirty>>
verifyVars == <<hosts, vi, missingNetworkServers, missingProxyServers, probed>>
loopVars == <<bi, built, ei, si, hi, bg, attempt, consec, probes, auth>>
logVars == <<attempts, lastAt, proxyCmds, proxied, urls, reported>>
engineVars == <<appC, current, svcC>>

----------------------------------------------------------------------------
(* Bounds of the model *)

MaxRuns == 2
MaxNames == 2

(* The configuration under deployment (the shape of src/example/luma.yml,  *)
(* widened to two apps, two services and two servers).                     *)

NoVal == "-"
Hosts == {"s1", "s2"}
Names == {"web", "api", "db", "ghost"}
Releases == 0..MaxRuns

configuredApps == <<"web", "api">>
configuredServices == <<"db", "cache">>

EntryServers(e) ==
  CASE e = "web" -> <<"s1", "s2">>
    [] e = "api" -> <<"s2">>
    [] e = "db" -> <<"s1", "s2">>
    [] e = "cache" -> <<"s1">>
    [] OTHER -> <<>>

ProxyHosts(e) == IF e = "web" THEN <<"h1", "h2">> ELSE <<>>

HasBuild(e) == e = "web"

EntryRegistry(e) ==
  CASE e = "web" -> [url |-> "reg.web", username |-> NoVal, password_secret |-> NoVal]
    [] e = "db" -> [url |-> "reg.db", username |-> "dbuser", password_secret |-> "DB_PW"]
    [] OTHER -> [url |-> NoVal, username |-> NoVal, password_secret |-> NoVal]

GlobalDocker == [registry |-> "reg.proj", username |-> "projuser"]

SecretKeys == {"DB_PW", "DOCKER_REGISTRY_PASSWORD"}

----------------------------------------------------------------------------
(* Helpers *)

Range(s) == {s[i] : i \in 1..Len(s)}

SeqsUpTo(S, n) == UNION {[1..k -> S] : k \in 0..n}

NoAuth == [registry |-> NoVal, user |-> NoVal, login |-> "none",
           performed |-> FALSE, pulled |-> NoVal]

Put(f, a, h, v) == [f EXCEPT ![a][h] = v]

Entry == targetEntries[ei]
Server == EntryServers(Entry)[si]

----------------------------------------------------------------------------
(* identifyTargetEntries: the forEach over entryNames with find by name *)

RECURSIVE ResolveNames(_, _)
ResolveNames(names, configured) ==
  IF names = <<>> THEN [targets |-> <<>>, warned |-> <<>>]
  ELSE LET rest == ResolveNames(Tail(names), configured)
           name == Head(names)
       IN IF \E i \in 1..Len(configured) : configured[i] = name
          THEN [targets |-> <<name>> \o rest.targets, warned |-> rest.warned]
          ELSE [targets |-> rest.targets, warned |-> <<name>> \o rest.warned]

ConfiguredOfBothKinds(servicesFlag) == configuredApps \o configuredServices

ConfiguredOfKind(servicesFlag) ==
  IF servicesFlag THEN configuredServices ELSE configuredApps

identifyTargetEntries(names, servicesFlag) ==
  IF names = <<>>
  THEN [targets |-> ConfiguredOfKind(servicesFlag), warned |-> <<>>]
  ELSE ResolveNames(names, ConfiguredOfKind(servicesFlag))

(* verifyInfrastructure: Array.from(new Set(...)), in insertion order *)

RECURSIVE AddAll(_, _)
AddAll(acc, servers) ==
  IF servers = <<>> THEN acc
  ELSE AddAll(IF Head(servers) \in Range(acc) THEN acc ELSE Append(acc, Head(servers)),
              Tail(servers))

RECURSIVE allTargetServersListed(_, _)
allTargetServersListed(acc, entries) ==
  IF entries = <<>> THEN acc
  ELSE allTargetServersListed(acc \o EntryServers(Head(entries)), Tail(entries))

(* lines 273-276: a Set, so a server named by two entries is there once *)
RECURSIVE allTargetServers(_, _)
allTargetServers(acc, entries) ==
  IF entries = <<>> THEN acc
  ELSE allTargetServers(AddAll(acc, EntryServers(Head(entries))), Tail(entries))

----------------------------------------------------------------------------
(* Initial state: no invocation yet.  Release 0 of web runs on both of its  *)
(* servers, db runs on s1 and cache on s1; api was never deployed, and db   *)
(* was never deployed to s2.                                                *)

DeployedBefore(e, h) ==
  \/ e = "web" /\ h \in {"s1", "s2"}
  \/ e = "db" /\ h = "s1"
  \/ e = "cache" /\ h = "s1"

InitContainers ==
  /\ appC = [a \in Range(configuredApps) |-> [h \in Hosts |-> [r \in Releases |->
               IF r = 0 /\ DeployedBefore(a, h) THEN "running" ELSE "absent"]]]
  /\ current = [a \in Range(configuredApps) |-> [h \in Hosts |->
               IF DeployedBefore(a, h) THEN 0 ELSE -1]]
  /\ svcC = [s \in Range(configuredServices) |-> [h \in Hosts |->
               IF DeployedBefore(s, h) THEN "running" ELSE "absent"]]

RunScoped ==
  /\ secrets' = {}
  /\ targetEntries' = <<>>
  /\ warnings' = <<>>
  /\ hosts' = <<>>
  /\ vi' = 1
  /\ missingNetworkServers' = <<>>
  /\ missingProxyServers' = <<>>
  /\ probed' = <<>>
  /\ bi' = 1
  /\ built' = <<>>
  /\ ei' = 1
  /\ si' = 1
  /\ hi' = 1
  /\ bg' = "idle"
  /\ attempt' = 0
  /\ consec' = 0
  /\ probes' = <<>>
  /\ auth' = NoAuth
  /\ sess' = {}
  /\ loginsOpen' = {}
  /\ ops' = {}
  /\ attempts' = <<>>
  /\ lastAt' = ""
  /\ proxyCmds' = <<>>
  /\ proxied' = {}
  /\ urls' = <<>>
  /\ reported' = FALSE
  /\ exitCode' = -1
  /\ fatal' = ""

Init ==
  /\ run = 0
  /\ pc = "idle"
  /\ entryNames = <<>>
  /\ forceFlag = FALSE
  /\ deployServicesFlag = FALSE
  /\ dirty = FALSE
  /\ secrets = {}
  /\ targetEntries = <<>>
  /\ warnings = <<>>
  /\ hosts = <<>>
  /\ vi = 1
  /\ missingNetworkServers = <<>>
  /\ missingProxyServers = <<>>
  /\ probed = <<>>
  /\ bi = 1
  /\ built = <<>>
  /\ ei = 1
  /\ si = 1
  /\ hi = 1
  /\ bg = "idle"
  /\ attempt = 0
  /\ consec = 0
  /\ probes = <<>>
  /\ auth = NoAuth
  /\ sess = {}
  /\ loginsOpen = {}
  /\ ops = {}
  /\ attempts = <<>>
  /\ lastAt = ""
  /\ proxyCmds = <<>>
  /\ proxied = {}
  /\ urls = <<>>
  /\ reported = FALSE
  /\ exitCode = -1
  /\ fatal = ""
  /\ InitContainers

----------------------------------------------------------------------------
(* deployCommand *)

(* The catch block of deployCommand: logger.deploymentFailed, exit(1). *)
Abort(why) ==
  /\ pc' = "done"
  /\ exitCode' = 1
  /\ fatal' = why

(* parseDeploymentArgs, generateReleaseId: an invocation of the command *)
StartRun ==
  /\ pc = "idle"
  /\ run' = run + 1
  /\ pc' = "checkGit"
  /\ entryNames' \in SeqsUpTo(Names, MaxNames)
  /\ forceFlag' \in BOOLEAN
  /\ deployServicesFlag' \in BOOLEAN
  /\ dirty' = FALSE
  /\ RunScoped
  /\ UNCHANGED engineVars

(* A later invocation, by a new process: it has a later release id, and    *)
(* the sessions of the process before it are gone.  It names one app.      *)
Redeploy ==
  /\ pc = "done"
  /\ run < MaxRuns
  /\ run' = run + 1
  /\ pc' = "checkGit"
  /\ entryNames' \in [1..1 -> Range(configuredApps)]
  /\ forceFlag' \in BOOLEAN
  /\ deployServicesFlag' = FALSE
  /\ dirty' = FALSE
  /\ RunScoped
  /\ UNCHANGED engineVars

UncommittedAbortsAlways(force, changes) == changes

(* line 178: !forceFlag && (await hasUncommittedChanges()) *)
UncommittedAborts(force, changes) == ~force /\ changes

(* hasUncommittedChanges is called only without --force; it answers false *)
(* when git status fails.                                                  *)
checkUncommittedChanges ==
  /\ pc = "checkGit"
  /\ \E changes \in BOOLEAN :
       /\ dirty' = (~forceFlag /\ changes)
       /\ IF UncommittedAborts(forceFlag, changes)
          THEN Abort("dirty")
          ELSE pc' = "load" /\ UNCHANGED <<exitCode, fatal>>
  /\ UNCHANGED <<run, entryNames, forceFlag, deployServicesFlag, secrets, targetEntries, warnings, verifyVars,
                 loopVars, sess, loginsOpen, ops, logVars, engineVars>>

loadConfigurationAndSecrets ==
  /\ pc = "load"
  /\ \/ /\ secrets' \in SUBSET SecretKeys
        /\ pc' = "resolve"
        /\ UNCHANGED <<exitCode, fatal>>
     \/ /\ Abort("config")
        /\ UNCHANGED secrets
  /\ UNCHANGED <<run, argVars, targetEntries, warnings, verifyVars,
                 loopVars, sess, loginsOpen, ops, logVars, engineVars>>

(* identifyTargetEntries and the empty check of deployCommand, which logs  *)
(* an error and returns: the process then ends with status 0.              *)
ResolveTargets ==
  /\ pc = "resolve"
  /\ LET r == identifyTargetEntries(entryNames, deployServicesFlag)
     IN /\ targetEntries' = r.targets
        /\ warnings' = r.warned
        /\ IF r.targets = <<>>
           THEN /\ pc' = "done"
                /\ exitCode' = 0
                /\ fatal' = "empty"
                /\ UNCHANGED hosts
           ELSE /\ pc' = "verify"
                /\ hosts' = allTargetServers(<<>>, r.targets)
                /\ UNCHANGED <<exitCode, fatal>>
  /\ UNCHANGED <<run, argVars, secrets, vi, missingNetworkServers,
                 missingProxyServers, probed, loopVars, sess, loginsOpen, ops,
                 logVars, engineVars>>

----------------------------------------------------------------------------
(* verifyInfrastructure *)

VerifyNextHost ==
  /\ vi' = vi + 1
  /\ pc' = "verify"

(* What the calls of one loop body gave: "true", "false", "error" (raised) *)
(* or NoVal for a call that was not reached.                               *)
Probe(h, c) == [host |-> h, connect |-> c, network |-> NoVal, proxy |-> NoVal]

NetworkGave(r) == [probed EXCEPT ![Len(probed)].network = r]

ProxyGave(r) == [probed EXCEPT ![Len(probed)].proxy = r]

(* getSSHCredentials, SSHClient.create, connect.  An error raised by any   *)
(* of them is caught: the host is pushed on both lists; the finally block  *)
(* closes a client that never connected.                                   *)
VerifyConnect ==
  /\ pc = "verify"
  /\ vi <= Len(hosts)
  /\ \/ /\ sess' = sess \cup {<<"verify", hosts[vi]>>}
        /\ probed' = Append(probed, Probe(hosts[vi], "true"))
        /\ pc' = "verifyNet"
        /\ UNCHANGED <<vi, missingNetworkServers, missingProxyServers>>
     \/ /\ missingNetworkServers' = Append(missingNetworkServers, hosts[vi])
        /\ missingProxyServers' = Append(missingProxyServers, hosts[vi])
        /\ probed' = Append(probed, Probe(hosts[vi], "error"))
        /\ VerifyNextHost
        /\ UNCHANGED sess
  /\ UNCHANGED <<run, argVars, secrets, targetEntries, warnings, hosts,
                 loopVars, loginsOpen, ops, logVars, exitCode, fatal, engineVars>>

(* dockerClientRemote.networkExists(networkName) *)
VerifyNetwork ==
  /\ pc = "verifyNet"
  /\ \/ /\ pc' = "verifyProxy"
        /\ probed' = NetworkGave("true")
        /\ UNCHANGED <<vi, sess, missingNetworkServers, missingProxyServers>>
     \/ /\ missingNetworkServers' = Append(missingNetworkServers, hosts[vi])
        /\ probed' = NetworkGave("false")
        /\ pc' = "verifyProxy"
        /\ UNCHANGED <<vi, sess, missingProxyServers>>
     \/ /\ missingNetworkServers' = Append(missingNetworkServers, hosts[vi])
        /\ missingProxyServers' = Append(missingProxyServers, hosts[vi])
        /\ probed' = NetworkGave("error")
        /\ sess' = sess \ {<<"verify", hosts[vi]>>}
        /\ VerifyNextHost
  /\ UNCHANGED <<run, argVars, secrets, targetEntries, warnings, hosts,
                 loopVars, loginsOpen, ops, logVars, exitCode, fatal, engineVars>>

(* proxyClient.isProxyRunning(), then the finally block closes the session *)
VerifyProxy ==
  /\ pc = "verifyProxy"
  /\ \/ /\ probed' = ProxyGave("true")
        /\ UNCHANGED <<missingNetworkServers, missingProxyServers>>
     \/ /\ missingProxyServers' = Append(missingProxyServers, hosts[vi])
        /\ probed' = ProxyGave("false")
        /\ UNCHANGED missingNetworkServers
     \/ /\ missingNetworkServers' = Append(missingNetworkServers, hosts[vi])
        /\ missingProxyServers' = Append(missingProxyServers, hosts[vi])
        /\ probed' = ProxyGave("error")
  /\ sess' = sess \ {<<"verify", hosts[vi]>>}
  /\ VerifyNextHost
  /\ UNCHANGED <<run, argVars, secrets, targetEntries, warnings, hosts,
                 loopVars, loginsOpen, ops, logVars, exitCode, fatal, engineVars>>

InfrastructureMissingNetworkOnly == Len(missingNetworkServers) > 0

(* line 329 *)
InfrastructureMissing ==
  Len(missingNetworkServers) > 0 \/ Len(missingProxyServers) > 0

deployEntriesWithoutBuild == "connect"

(* deployEntries, lines 355-377: a services run goes to its deploy loop,   *)
(* an app run to the build loop first.                                     *)
deployEntries == IF deployServicesFlag THEN "connect" ELSE "build"

(* The verdict of verifyInfrastructure, and the start of deployEntries *)
VerifyVerdict ==
  /\ pc = "verify"
  /\ vi > Len(hosts)
  /\ IF InfrastructureMissing
     THEN Abort("infra")
     ELSE /\ pc' = deployEntries
          /\ UNCHANGED <<exitCode, fatal>>
  /\ UNCHANGED <<run, argVars, secrets, targetEntries, warnings, verifyVars,
                 loopVars, sess, loginsOpen, ops, logVars, engineVars>>

----------------------------------------------------------------------------
(* deployEntries: the build phase of an app run *)

(* buildOrTagAppImage: DockerClient.build or DockerClient.tag; a raised    *)
(* error gives false, and buildAndPushApp then throws "Image build failed" *)
BuildOrTag ==
  /\ pc = "build"
  /\ ops' = ops \cup {IF HasBuild(targetEntries[bi]) THEN "build" ELSE "tag"}
  /\ \/ pc' = "push" /\ UNCHANGED <<exitCode, fatal>>
     \/ Abort("build")
  /\ UNCHANGED <<run, argVars, secrets, targetEntries, warnings, verifyVars,
                 loopVars, sess, loginsOpen, logVars, engineVars>>

AfterPushInterleaved == "connect"

(* deployEntries, lines 360-370: the build loop ends before the deploy     *)
(* loop begins.                                                            *)
AfterPush == IF bi < Len(targetEntries) THEN "build" ELSE "connect"

(* pushAppImage: DockerClient.push; a raised error is rethrown *)
PushImage ==
  /\ pc = "push"
  /\ ops' = ops \cup {"push"}
  /\ \/ /\ built' = Append(built, targetEntries[bi])
        /\ bi' = bi + 1
        /\ pc' = AfterPush
        /\ UNCHANGED <<exitCode, fatal>>
     \/ /\ Abort("push")
        /\ UNCHANGED <<bi, built>>
  /\ UNCHANGED <<run, argVars, secrets, targetEntries, warnings, verifyVars,
                 ei, si, hi, bg, attempt, consec, probes, auth, sess, loginsOpen,
                 logVars, engineVars>>

----------------------------------------------------------------------------
(* The deploy loops of deployEntries, deployAppToServers and deployService *)

Sid == <<"deploy", Entry, Server>>

Verdict(v) == [entry |-> Entry, server |-> Server, verdict |-> v]

NextPair ==
  IF si < Len(EntryServers(Entry)) THEN [pc |-> "connect", ei |-> ei, si |-> si + 1]
  ELSE IF ei < Len(targetEntries) THEN [pc |-> "connect", ei |-> ei + 1, si |-> 1]
  ELSE [pc |-> "report", ei |-> ei, si |-> si]

Advance ==
  /\ pc' = NextPair.pc
  /\ ei' = NextPair.ei
  /\ si' = NextPair.si

(* A step inside a pair's work that neither ends it nor touches a session *)
Goto(p, b) ==
  /\ pc' = p
  /\ bg' = b
  /\ UNCHANGED <<ei, si, attempts, lastAt, sess, exitCode, fatal>>

(* deployAppToServer, lines 582-585: the catch block logs and rethrows;    *)
(* nothing up to the catch block of deployCommand catches the error.       *)
AppPairThrows(at, closed) ==
  /\ attempts' = Append(attempts, Verdict("FAILED"))
  /\ lastAt' = at
  /\ bg' = "FAILED"
  /\ sess' = IF closed THEN sess \ {Sid} ELSE sess
  /\ Abort("deploy")
  /\ UNCHANGED <<ei, si>>

ServicePairRethrows(v, at) == AppPairThrows(at, TRUE)

(* deployServiceToServer, lines 652-661: the catch block logs, the finally *)
(* block closes the session if there is one; the loops go on.              *)
ServicePairEnds(v, at) ==
  /\ attempts' = Append(attempts, Verdict(v))
  /\ lastAt' = at
  /\ sess' = sess \ {Sid}
  /\ Advance
  /\ UNCHANGED <<bg, exitCode, fatal>>

(* An error raised while the session is open and before it was closed *)
PairThrows(at) ==
  IF deployServicesFlag THEN ServicePairEnds("FAILED", at)
  ELSE AppPairThrows(at, FALSE)

(* establishSSHConnection, called by deployAppToServer (line 523) and by   *)
(* deployServiceToServer (line 620).                                       *)
Connect ==
  /\ pc = "connect"
  /\ auth' = NoAuth
  /\ hi' = 1
  /\ attempt' = 0
  /\ consec' = 0
  /\ probes' = <<>>
  /\ proxyCmds' = <<>>
  /\ \/ /\ sess' = sess \cup {Sid}
        /\ pc' = "auth"
        /\ bg' = IF deployServicesFlag THEN bg ELSE "PULLING"
        /\ UNCHANGED <<ei, si, attempts, lastAt, exitCode, fatal>>
     \/ PairThrows("connect")
  /\ UNCHANGED <<run, argVars, secrets, targetEntries, warnings, verifyVars,
                 bi, built, loginsOpen, ops, proxied, urls, reported,
                 engineVars>>

----------------------------------------------------------------------------
(* authenticateAndPullImage *)

Has(v) == v # NoVal

Or3(a, b, c) == IF Has(a) THEN a ELSE IF Has(b) THEN b ELSE c

(* lines 695-723: the registry, and the credentials of the login if any *)
AuthPlan(e) ==
  LET er == EntryRegistry(e)
      imageRegistry == Or3(er.url, GlobalDocker.registry, "docker.io")
  IN IF Has(er.username) /\ Has(er.password_secret)
     THEN [registry |-> imageRegistry, user |-> er.username,
           login |-> er.password_secret \in secrets]
     ELSE IF Has(GlobalDocker.username) /\ "DOCKER_REGISTRY_PASSWORD" \in secrets
     THEN [registry |-> imageRegistry, user |-> GlobalDocker.username, login |-> TRUE]
     ELSE [registry |-> imageRegistry, user |-> NoVal, login |-> FALSE]

(* performRegistryLogin: the login ends clean, with the unencrypted-store  *)
(* notice, or with another error; all three set registryLoginPerformed.    *)
AuthLogin ==
  /\ pc = "auth"
  /\ LET plan == AuthPlan(Entry)
     IN IF plan.login
        THEN /\ \E res \in {"ok", "warn", "fail"} :
                  auth' = [registry |-> plan.registry, user |-> plan.user,
                           login |-> res, performed |-> TRUE, pulled |-> NoVal]
             /\ loginsOpen' = loginsOpen \cup {<<Server, plan.registry>>}
             /\ ops' = ops \cup {"login"}
        ELSE /\ auth' = [NoAuth EXCEPT !.registry = plan.registry]
             /\ UNCHANGED <<loginsOpen, ops>>
  /\ Goto("pull", bg)
  /\ UNCHANGED <<run, argVars, secrets, targetEntries, warnings, verifyVars,
                 bi, built, hi, attempt, consec, probes, proxyCmds, proxied, urls, reported,
                 engineVars>>

AfterPullUnchecked(ok) ==
  IF deployServicesFlag THEN Goto("svcStop", bg)
  ELSE Goto("bgCreate", "STARTING_CANDIDATE")

(* lines 732-734, and the caller's next step when the pull succeeded *)
AfterPull(ok) ==
  IF ~ok THEN PairThrows("pull")
  ELSE IF deployServicesFlag THEN Goto("svcStop", bg)
  ELSE Goto("bgCreate", "STARTING_CANDIDATE")

(* dockerClientRemote.pullImage: true, false, or a raised error, which     *)
(* leaves authenticateAndPullImage at once.                                *)
PullImage ==
  /\ pc = "pull"
  /\ ops' = ops \cup {"pull"}
  /\ \/ /\ auth' = [auth EXCEPT !.pulled = "throw"]
        /\ PairThrows("pull")
     \/ \E ok \in BOOLEAN :
          /\ auth' = [auth EXCEPT !.pulled = IF ok THEN "ok" ELSE "fail"]
          /\ IF auth.performed THEN Goto("logout", bg) ELSE AfterPull(ok)
  /\ UNCHANGED <<run, argVars, secrets, targetEntries, warnings, verifyVars,
                 bi, built, hi, attempt, consec, probes, loginsOpen, proxyCmds, proxied, urls,
                 reported, engineVars>>

pullSuccessAssumed == TRUE

(* line 726: const pullSuccess, read again at line 732 after the logout *)
pullSuccess == auth.pulled = "ok"

(* dockerClientRemote.logout(imageRegistry), lines 728-730 *)
Logout ==
  /\ pc = "logout"
  /\ ops' = ops \cup {"logout"}
  /\ loginsOpen' = loginsOpen \ {<<Server, auth.registry>>}
  /\ \/ AfterPull(pullSuccess)
     \/ PairThrows("logout")
  /\ UNCHANGED <<run, argVars, secrets, targetEntries, warnings, verifyVars,
                 bi, built, hi, attempt, consec, probes, auth, proxyCmds, proxied, urls,
                 reported, engineVars>>

----------------------------------------------------------------------------
(* performBlueGreenDeployment: the blue-green engine of ./blue-green, as   *)
(* section 4.3 of the specification describes it.  It never raises: every  *)
(* failure is returned as a result with success false.                     *)

HealthAttempts == 3
HealthThreshold == 2

(* STARTING_CANDIDATE: create {app}-{releaseId}; the engine refuses a name *)
(* that is taken.                                                          *)
StartCandidate ==
  /\ pc = "bgCreate"
  /\ ops' = ops \cup {"create"}
  /\ \/ /\ appC[Entry][Server][run] = "absent"
        /\ appC' = [appC EXCEPT ![Entry][Server][run] = "running"]
        /\ Goto("bgHealth", "HEALTH_CHECKING")
     \/ /\ UNCHANGED appC
        /\ Goto("bgResult", "FAILED")
  /\ UNCHANGED <<run, argVars, secrets, targetEntries, warnings, verifyVars,
                 bi, built, hi, attempt, consec, probes, auth, loginsOpen, proxyCmds, proxied,
                 urls, reported, current, svcC>>

HealthPassedOnSuccess(c) == c >= 1

(* The pass verdict: the consecutive-success threshold is reached *)
HealthPassed(c) == c >= HealthThreshold

(* HEALTH_CHECKING: one probe of the candidate *)
HealthProbe ==
  /\ pc = "bgHealth"
  /\ \E ok \in BOOLEAN :
       /\ attempt' = attempt + 1
       /\ consec' = IF ok THEN consec + 1 ELSE 0
       /\ probes' = Append(probes, ok)
       /\ IF HealthPassed(consec') THEN Goto("bgCutover", "CUTTING_OVER")
          ELSE IF attempt' >= HealthAttempts THEN Goto("bgResult", "FAILED")
          ELSE Goto("bgHealth", bg)
  /\ UNCHANGED <<run, argVars, secrets, targetEntries, warnings, verifyVars,
                 bi, built, hi, auth, loginsOpen, ops, proxyCmds, proxied, urls,
                 reported, engineVars>>

(* CUTTING_OVER: the alias now also names the candidate *)
CutOver ==
  /\ pc = "bgCutover"
  /\ Goto("bgDecomm", "DECOMMISSIONING")
  /\ UNCHANGED <<run, argVars, secrets, targetEntries, warnings, verifyVars,
                 bi, built, hi, attempt, consec, probes, auth, loginsOpen, ops,
                 proxyCmds, proxied, urls, reported, engineVars>>

Previous == current[Entry][Server]

HasPrevious == Previous # -1 /\ appC[Entry][Server][Previous] # "absent"

Promote == current' = Put(current, Entry, Server, run)

(* DECOMMISSIONING: stop the previous release's container; best effort *)
DecommissionStop ==
  /\ pc = "bgDecomm"
  /\ IF ~HasPrevious
     THEN /\ Promote
          /\ Goto("bgResult", "DONE")
          /\ UNCHANGED <<appC, ops>>
     ELSE /\ ops' = ops \cup {"stop"}
          /\ \/ /\ appC' = [appC EXCEPT ![Entry][Server][Previous] = "stopped"]
                /\ Goto("bgRemove", bg)
                /\ UNCHANGED current
             \/ /\ Promote
                /\ Goto("bgResult", "DONE")
                /\ UNCHANGED appC
  /\ UNCHANGED <<run, argVars, secrets, targetEntries, warnings, verifyVars,
                 bi, built, hi, attempt, consec, probes, auth, loginsOpen, proxyCmds, proxied,
                 urls, reported, svcC>>

(* DECOMMISSIONING: remove the previous release's container; best effort *)
DecommissionRemove ==
  /\ pc = "bgRemove"
  /\ ops' = ops \cup {"remove"}
  /\ \/ appC' = [appC EXCEPT ![Entry][Server][Previous] = "absent"]
     \/ UNCHANGED appC
  /\ Promote
  /\ Goto("bgResult", "DONE")
  /\ UNCHANGED <<run, argVars, secrets, targetEntries, warnings, verifyVars,
                 bi, built, hi, attempt, consec, probes, auth, loginsOpen, proxyCmds, proxied,
                 urls, reported, svcC>>

----------------------------------------------------------------------------
(* deployAppToServer after the engine returned *)

DeploymentSucceededAlways == TRUE

(* deploymentResult.success *)
DeploymentSucceeded == bg # "FAILED"

(* lines 562-567: on failure close the session and throw *)
BlueGreenResult ==
  /\ pc = "bgResult"
  /\ IF DeploymentSucceeded
     THEN Goto("proxy", bg)
     ELSE AppPairThrows(IF attempt = 0 THEN "create" ELSE "health", TRUE)
  /\ UNCHANGED <<run, argVars, secrets, targetEntries, warnings, verifyVars,
                 bi, built, hi, attempt, consec, probes, auth, loginsOpen, ops,
                 proxyCmds, proxied, urls, reported, engineVars>>

PairDoneSessionLeftOpen ==
  /\ attempts' = Append(attempts, Verdict("DONE"))
  /\ UNCHANGED <<sess, lastAt>>
  /\ Advance
  /\ UNCHANGED <<bg, exitCode, fatal>>

(* The work of a pair ends without an error: the session is closed (line   *)
(* 581 for an app, the finally block for a service) and the loops go on.   *)
PairDone ==
  /\ attempts' = Append(attempts, Verdict("DONE"))
  /\ sess' = sess \ {Sid}
  /\ UNCHANGED lastAt
  /\ Advance
  /\ UNCHANGED <<bg, exitCode, fatal>>

ProxyLoopEndsOnFailure(res) == res # "ok" \/ hi >= Len(ProxyHosts(Entry))

(* lines 783-802: the loop over the hosts; the try/catch is inside it, so  *)
(* the result of one host has no part in whether the next one is reached.  *)
ProxyLoopEnds(res) == hi >= Len(ProxyHosts(Entry))

(* configureProxyForApp: one proxyClient.configureProxy per host; false    *)
(* and a raised error are logged.  After the last host, line 581.          *)
ConfigureProxy ==
  /\ pc = "proxy"
  /\ IF ProxyHosts(Entry) = <<>>
     THEN /\ PairDone
          /\ UNCHANGED <<hi, ops, proxyCmds, proxied>>
     ELSE /\ ops' = ops \cup {"proxy"}
          /\ \E res \in {"ok", "false", "throw"} :
               /\ proxyCmds' = Append(proxyCmds,
                     [host |-> ProxyHosts(Entry)[hi], result |-> res])
               /\ proxied' = IF res = "ok"
                             THEN proxied \cup {ProxyHosts(Entry)[hi]}
                             ELSE proxied
               /\ IF ProxyLoopEnds(res)
                  THEN PairDone /\ UNCHANGED hi
                  ELSE hi' = hi + 1 /\ Goto("proxy", bg)
  /\ UNCHANGED <<run, argVars, secrets, targetEntries, warnings, verifyVars,
                 bi, built, attempt, consec, probes, auth, loginsOpen, urls, reported,
                 engineVars>>

----------------------------------------------------------------------------
(* replaceServiceContainer and the rest of deployServiceToServer.  The     *)
(* engine raises an error when asked to stop or remove a container that    *)
(* does not exist, and refuses to create one under a name that is taken.   *)

ServiceStop ==
  /\ pc = "svcStop"
  /\ ops' = ops \cup {"stop"}
  /\ \/ /\ svcC[Entry][Server] # "absent"
        /\ svcC' = Put(svcC, Entry, Server, "stopped")
        /\ Goto("svcRemove", bg)
     \/ /\ UNCHANGED svcC
        /\ Goto("svcCreate", bg)
  /\ UNCHANGED <<run, argVars, secrets, targetEntries, warnings, verifyVars,
                 bi, built, hi, attempt, consec, probes, auth, loginsOpen, proxyCmds, proxied,
                 urls, reported, appC, current>>

ServiceRemove ==
  /\ pc = "svcRemove"
  /\ ops' = ops \cup {"remove"}
  /\ \/ svcC' = Put(svcC, Entry, Server, "absent")
     \/ UNCHANGED svcC
  /\ Goto("svcCreate", bg)
  /\ UNCHANGED <<run, argVars, secrets, targetEntries, warnings, verifyVars,
                 bi, built, hi, attempt, consec, probes, auth, loginsOpen, proxyCmds, proxied,
                 urls, reported, appC, current>>

(* lines 834-840: createContainer, and the throw when it returns false *)
ServiceCreate ==
  /\ pc = "svcCreate"
  /\ ops' = ops \cup {"create"}
  /\ \/ /\ svcC[Entry][Server] = "absent"
        /\ svcC' = Put(svcC, Entry, Server, "running")
        /\ Goto("svcPrune", bg)
     \/ /\ UNCHANGED svcC
        /\ ServicePairEnds("FAILED", "create")
  /\ UNCHANGED <<run, argVars, secrets, targetEntries, warnings, verifyVars,
                 bi, built, hi, attempt, consec, probes, auth, loginsOpen, proxyCmds, proxied,
                 urls, reported, appC, current>>

(* What a prune of the host's unused resources may take away: nothing, or  *)
(* every stopped container of the host.                                    *)
PruneStopped(h) ==
  /\ appC' = [a \in DOMAIN appC |-> [k \in Hosts |-> [r \in Releases |->
        IF k = h /\ appC[a][k][r] = "stopped" THEN "absent" ELSE appC[a][k][r]]]]
  /\ svcC' = [s \in DOMAIN svcC |-> [k \in Hosts |->
        IF k = h /\ svcC[s][k] = "stopped" THEN "absent" ELSE svcC[s][k]]]

(* lines 646-661: dockerClientRemote.prune(), then the finally block *)
ServicePrune ==
  /\ pc = "svcPrune"
  /\ ops' = ops \cup {"prune"}
  /\ \/ /\ PairDone
        /\ \/ UNCHANGED <<appC, svcC>>
           \/ PruneStopped(Server)
     \/ /\ ServicePairEnds("FAILED", "prune")
        /\ UNCHANGED <<appC, svcC>>
  /\ UNCHANGED <<run, argVars, secrets, targetEntries, warnings, verifyVars,
                 bi, built, hi, attempt, consec, probes, auth, loginsOpen, proxyCmds, proxied,
                 urls, reported, current>>

----------------------------------------------------------------------------
(* deployCommand, lines 902-915: the end-of-run report *)

RECURSIVE CollectUrls(_)
CollectUrls(entries) ==
  IF entries = <<>> THEN <<>>
  ELSE ProxyHosts(Head(entries)) \o CollectUrls(Tail(entries))

Report ==
  /\ pc = "report"
  /\ urls' = IF deployServicesFlag THEN <<>> ELSE CollectUrls(targetEntries)
  /\ reported' = TRUE
  /\ exitCode' = 0
  /\ pc' = "done"
  /\ UNCHANGED <<run, argVars, secrets, targetEntries, warnings, verifyVars,
                 loopVars, sess, loginsOpen, ops, attempts, lastAt, proxyCmds, proxied,
                 proxied, fatal, engineVars>>

----------------------------------------------------------------------------

Next ==
  \/ StartRun
  \/ checkUncommittedChanges
  \/ loadConfigurationAndSecrets
  \/ ResolveTargets
  \/ VerifyConnect
  \/ VerifyNetwork
  \/ VerifyProxy
  \/ VerifyVerdict
  \/ BuildOrTag
  \/ PushImage
  \/ Connect
  \/ AuthLogin
  \/ PullImage
  \/ Logout
  \/ StartCandidate
  \/ HealthProbe
  \/ CutOver
  \/ DecommissionStop
  \/ DecommissionRemove
  \/ BlueGreenResult
  \/ ConfigureProxy
  \/ ServiceStop
  \/ ServiceRemove
  \/ ServiceCreate
  \/ ServicePrune
  \/ Report

Spec == Init /\ [][Next]_vars

(* A sequence of invocations against the same servers *)
NextRuns == Next \/ Redeploy

SpecRuns == Init /\ [][NextRuns]_vars

----------------------------------------------------------------------------
(* Properties *)

VerifyPcs == {"verify", "verifyNet", "verifyProxy"}

InPair == pc \in {"auth", "pull", "logout", "bgCreate", "bgHealth", "bgCutover",
                  "bgDecomm", "bgRemove", "bgResult", "proxy",
                  "svcStop", "svcRemove", "svcCreate", "svcPrune"}

Resolved ==
  /\ pc \notin {"idle", "checkGit", "load", "resolve"}
  /\ fatal \notin {"dirty", "config"}

DeploySessions == {s \in sess : s[1] = "deploy"}

RECURSIVE PairCount(_)
PairCount(entries) ==
  IF entries = <<>> THEN 0
  ELSE Len(EntryServers(Head(entries))) + PairCount(Tail(entries))

AllDone == \A i \in 1..Len(attempts) : attempts[i].verdict = "DONE"

LastAttempt == attempts[Len(attempts)]

Existing(a, h) == {r \in Releases : appC[a][h][r] # "absent"}

(* C1: once the verifier has put a host on the missing-network or the      *)
(* missing-proxy list, the run performs no build, tag, push, login, pull,  *)
(* create, stop, remove or proxy command, deploys to no pair, and the only *)
(* sessions ever open are the verifier's.                                  *)
C1_NoWorkAfterFailedVerification ==
  (Len(missingNetworkServers) > 0 \/ Len(missingProxyServers) > 0)
    => /\ ops = {}
       /\ attempts = <<>>
       /\ DeploySessions = {}
       /\ pc \in VerifyPcs \cup {"done"}
       /\ pc = "done" => exitCode = 1 /\ ~reported

(* C1 witness: a run aborted because the proxy alone was missing on a host *)
C1_Witness ==
  /\ pc = "done"
  /\ fatal = "infra"
  /\ missingNetworkServers = <<>>
  /\ Len(missingProxyServers) > 0

(* C2: in an app run no deployment session is opened, no pair is attempted *)
(* and no remote operation is performed before build/tag and push of every *)
(* target entry completed; a run made fatal by a build, tag or push failure*)
(* has performed nothing but builds, tags and pushes.                      *)
C2_BuildAllBeforeAnyServer ==
  ~deployServicesFlag =>
    /\ (DeploySessions # {} \/ attempts # <<>> \/ ops \ {"build", "tag", "push"} # {})
          => built = targetEntries
    /\ fatal \in {"build", "push"}
          => /\ ops \subseteq {"build", "tag", "push"}
             /\ attempts = <<>>
             /\ sess = {}
             /\ exitCode = 1
             /\ appC = [a \in Range(configuredApps) |-> [h \in Hosts |-> [r \in Releases |->
                         IF r = 0 /\ DeployedBefore(a, h) THEN "running" ELSE "absent"]]]

(* C2 witness: the first entry was built and pushed, the push of the       *)
(* second failed.                                                          *)
C2_Witness ==
  /\ pc = "done"
  /\ fatal = "push"
  /\ Len(built) = 1
  /\ Len(targetEntries) = 2

(* C3: an app run in which no deployment failed otherwise than by its      *)
(* pull, its candidate's creation or its health check attempts every       *)
(* (app, server) pair of its target list.                                  *)
C3_FailedPairDoesNotAbort ==
  ( /\ pc = "done"
    /\ ~deployServicesFlag
    /\ attempts # <<>>
    /\ AllDone \/ lastAt \in {"pull", "create", "health"} )
    => Len(attempts) = PairCount(targetEntries)

(* C4: a run that ends with exit status zero met no fatal condition and    *)
(* no failed (entry, server) deployment.                                   *)
C4_ZeroExitOnlyOnCleanRun ==
  (pc = "done" /\ exitCode = 0) => (fatal = "" /\ AllDone)

(* C5: when the candidate's health check used up its attempts, the         *)
(* release that served before the run still runs on that server, the       *)
(* candidate runs, and no proxy command was issued for the pair.           *)
C5_HealthFailureLeavesServerAsItWas ==
  (bg = "FAILED" /\ attempt > 0)
    => /\ appC[Entry][Server][run] = "running"
       /\ current[Entry][Server] = IF DeployedBefore(Entry, Server) THEN 0 ELSE -1
       /\ DeployedBefore(Entry, Server) => appC[Entry][Server][0] = "running"
       /\ proxyCmds = <<>>

(* C5 witness: the run ended on a health failure on a server that held a   *)
(* previous release.                                                       *)
C5_Witness ==
  /\ pc = "done"
  /\ lastAt = "health"
  /\ attempt = HealthAttempts
  /\ DeployedBefore(Entry, Server)
  /\ ProxyHosts(Entry) # <<>>

(* C6: outside the pull bracket of the pair being deployed no login is     *)
(* left without its logout.                                                *)
C6_LoginAlwaysLoggedOut ==
  loginsOpen # {} => pc \in {"pull", "logout"}

(* C7: a session is open only while the work it was opened for is going    *)
(* on: the verifier's probes of that host, or the deployment of that pair. *)
C7_SessionsClosed ==
  \A s \in sess :
    \/ s[1] = "verify" /\ pc \in {"verifyNet", "verifyProxy"} /\ s[2] = hosts[vi]
    \/ s[1] = "deploy" /\ InPair /\ s = Sid

(* C8: the target list is the requested names that are configured entries *)
(* of the selected kind, in the caller's order; the other names are warned *)
(* about; with no names it is every configured entry of that kind; the run *)
(* stops for want of targets exactly when the list is empty.               *)
C8_TargetResolution ==
  LET kind == IF deployServicesFlag THEN configuredServices ELSE configuredApps
      Known(n) == n \in Range(kind)
      Unknown(n) == n \notin Range(kind)
  IN Resolved =>
       /\ entryNames # <<>> => /\ targetEntries = SelectSeq(entryNames, Known)
                               /\ warnings = SelectSeq(entryNames, Unknown)
       /\ entryNames = <<>> => targetEntries = kind /\ warnings = <<>>
       /\ fatal = "empty" <=> targetEntries = <<>>
       /\ warnings # <<>> /\ targetEntries # <<>> => pc # "done" \/ fatal # "empty"

(* C8 witness: web and ghost were requested; web is the target, ghost is   *)
(* warned about and the run goes on.                                       *)
C8_Witness ==
  /\ pc = "verify"
  /\ entryNames = <<"web", "ghost">>
  /\ targetEntries = <<"web">>
  /\ warnings = <<"ghost">>

(* C9: when web passed on s1 and failed its health check on s2, the run    *)
(* reaches the report, lists the url of every hostname proxied on s1, and  *)
(* exits with a failure status; s1 serves the new release and s2 the old.  *)
C9_PartialFailureStillReports ==
  ( /\ pc = "done"
    /\ ~deployServicesFlag
    /\ Len(attempts) = 2
    /\ attempts[1] = [entry |-> "web", server |-> "s1", verdict |-> "DONE"]
    /\ attempts[2] = [entry |-> "web", server |-> "s2", verdict |-> "FAILED"]
    /\ lastAt = "health"
    /\ proxied # {} )
    => /\ current["web"]["s1"] = run
       /\ current["web"]["s2"] = 0
       /\ appC["web"]["s2"][0] = "running"
       /\ reported
       /\ proxied \subseteq Range(urls)
       /\ exitCode = 1

(* C10: at most two containers of an app exist on a server *)
C10_AtMostTwoContainers ==
  \A a \in Range(configuredApps) : \A h \in Hosts : Cardinality(Existing(a, h)) <= 2

(* C11: an app run in which every (app, server) deployment reported        *)
(* success ends with one DONE outcome per pair and, on every server of     *)
(* every target app, exactly one container of that app: the candidate of   *)
(* this release, running; the previous release's container is gone.        *)
C11_SuccessLeavesOnlyTheCandidate ==
  (pc = "done" /\ ~deployServicesFlag /\ reported /\ targetEntries # <<>> /\ AllDone)
    => /\ Len(attempts) = PairCount(targetEntries)
       /\ \A i \in 1..Len(targetEntries) :
            \A j \in 1..Len(EntryServers(targetEntries[i])) :
              LET a == targetEntries[i]
                  h == EntryServers(a)[j]
              IN  /\ Existing(a, h) = {run}
                  /\ appC[a][h][run] = "running"

(* C12: in a services run, once the work for a (service, server) pair has  *)
(* ended and while no later work on that pair is under way, a container    *)
(* with the service's name exists on that server, whatever the outcome of  *)
(* the pair, provided one existed before the run or the pair ended DONE.   *)
(* (Names are unique on a host, so "exactly one" is "one exists".)         *)
C12_ServiceContainerSurvives ==
  deployServicesFlag =>
    \A i \in 1..Len(attempts) :
      LET a == attempts[i]
      IN  ( /\ DeployedBefore(a.entry, a.server) \/ a.verdict = "DONE"
            /\ ~(InPair /\ Entry = a.entry /\ Server = a.server) )
            => svcC[a.entry][a.server] # "absent"

(* C13: whenever a registry login was performed for the entry at hand, the *)
(* registry and the username come from one level: the entry's registry URL *)
(* with the entry's username, or else the project's registry with the      *)
(* project's username.  The entry's URL never goes with the project's      *)
(* username, and the project's username goes to no registry but the        *)
(* project's.                                                              *)
C13_RegistryAndCredentialsOfOneLevel ==
  (InPair /\ auth.performed) =>
    LET er == EntryRegistry(Entry)
    IN  IF Has(er.url)
        THEN auth.registry = er.url /\ auth.user = er.username
        ELSE auth.registry = GlobalDocker.registry /\ auth.user = GlobalDocker.username

(* C14: in an app run a configuration command is issued for the hosts of   *)
(* the entry in their configured order: while the loop runs, the commands  *)
(* issued are those of the first hosts; after a pair that ended DONE the   *)
(* commands issued name every configured host, once and in order.  No pair *)
(* fails at the proxy: a pair that ended FAILED issued no proxy command.   *)
C14_EveryHostConfiguredInOrder ==
  ~deployServicesFlag =>
    /\ pc = "proxy" =>
         /\ Len(proxyCmds) = hi - 1
         /\ \A k \in 1..Len(proxyCmds) : proxyCmds[k].host = ProxyHosts(Entry)[k]
    /\ (attempts # <<>> /\ pc \in {"connect", "report", "done"}) =>
         IF LastAttempt.verdict = "DONE"
         THEN [k \in 1..Len(proxyCmds) |-> proxyCmds[k].host]
                = ProxyHosts(LastAttempt.entry)
         ELSE proxyCmds = <<>>
    /\ lastAt # "proxy"

(* C14 witness: on the first server of web the command of the first host   *)
(* raised an error and that of the second returned false; the pair ended   *)
(* DONE and the next server is about to be connected.                      *)
C14_Witness ==
  /\ pc = "connect"
  /\ Len(attempts) = 1
  /\ LastAttempt = [entry |-> "web", server |-> "s1", verdict |-> "DONE"]
  /\ proxyCmds = <<[host |-> "h1", result |-> "throw"],
                   [host |-> "h2", result |-> "false"]>>
  /\ Entry = "web" /\ Server = "s2"

(* C15: the report of a run lists a proxy host only if a configuration     *)
(* command for that host ended successfully on some server in this run,    *)
(* and lists nothing in a services run.                                    *)
C15_UrlsOnlyOfProxiedHosts ==
  reported =>
    /\ Range(urls) \subseteq proxied
    /\ deployServicesFlag => urls = <<>>

ServersOf(entries) == UNION {Range(EntryServers(entries[i])) : i \in 1..Len(entries)}

OnList(list, h) == \E k \in 1..Len(list) : list[k] = h

(* C16: the verifier takes up each distinct host of the target entries     *)
(* once, in order, and is fail-closed.  At any moment the hosts taken up   *)
(* are the first hosts of the list, which has no host twice and holds      *)
(* exactly the servers of the target entries.  For a host whose loop body  *)
(* ended: it is on neither list only if the connection, the network check  *)
(* and the proxy check all gave true; a false network (proxy) check puts it*)
(* on the network (proxy) list; a raised error puts it on both.  The       *)
(* verdict, passing or fatal, comes only after every host was taken up.    *)
C16_VerifierFailClosed ==
  (Resolved /\ targetEntries # <<>>) =>
    /\ Range(hosts) = ServersOf(targetEntries)
    /\ \A i, j \in 1..Len(hosts) : hosts[i] = hosts[j] => i = j
    /\ Len(probed) <= Len(hosts)
    /\ \A k \in 1..Len(probed) : probed[k].host = hosts[k]
    /\ \A k \in 1..Len(probed) :
         LET p == probed[k]
             ended == k < Len(probed) \/ pc \notin {"verifyNet", "verifyProxy"}
             raised == "error" \in {p.connect, p.network, p.proxy}
         IN  ended =>
               /\ ~OnList(missingNetworkServers, p.host) /\ ~OnList(missingProxyServers, p.host)
                    => p.connect = "true" /\ p.network = "true" /\ p.proxy = "true"
               /\ p.network = "false" => OnList(missingNetworkServers, p.host)
               /\ p.proxy = "false" => OnList(missingProxyServers, p.host)
               /\ raised => /\ OnList(missingNetworkServers, p.host)
                            /\ OnList(missingProxyServers, p.host)
    /\ pc \notin VerifyPcs => Len(probed) = Len(hosts)

(* C16 witness: two entries that share a host; the connection to the first *)
(* host raised an error, the second host was probed all the same and       *)
(* passed both checks, and the run ended at the verdict.                   *)
C16_Witness ==
  /\ targetEntries = <<"web", "api">>
  /\ fatal = "infra"
  /\ probed = <<[host |-> "s1", connect |-> "error", network |-> NoVal, proxy |-> NoVal],
                [host |-> "s2", connect |-> "true", network |-> "true", proxy |-> "true"]>>
  /\ missingNetworkServers = <<"s1">>
  /\ missingProxyServers = <<"s1">>

(* The phase a position of the run belongs to *)
Phase(p) ==
  CASE p = "idle" -> 0
    [] p = "checkGit" -> 1
    [] p = "load" -> 2
    [] p = "resolve" -> 3
    [] p \in VerifyPcs -> 4
    [] p \in {"build", "push"} -> 5
    [] p = "report" -> 7
    [] p = "done" -> 8
    [] OTHER -> 6

(* C17: every step of a run stays in its phase, enters the next phase, or  *)
(* ends the run.  The phases are, in order: clean-workspace check, load of *)
(* configuration and secrets, target resolution, infrastructure            *)
(* verification, build and push (app runs; a services run has none),       *)
(* deployment, report.  The next phase is entered only with no fatal error *)
(* recorded, a run that ends before the report has recorded why, the       *)
(* deployment phase of an app run begins only when every target entry was  *)
(* built and pushed, and the report is entered only when every pair of     *)
(* every target entry was attempted.                                       *)
C17_PhasesInOrder ==
  [][ LET a == Phase(pc)
          b == Phase(pc')
      IN  /\ \/ b = a
             \/ b = a + 1 /\ a # 4
             \/ a = 4 /\ b = (IF deployServicesFlag THEN 6 ELSE 5)
             \/ b = 8
          /\ (b # a /\ b < 8) => fatal' = ""
          /\ (b = 8 /\ a < 7) => fatal' # ""
          /\ (a = 5 /\ b = 6) => built' = targetEntries
          /\ b = 7 => /\ Len(attempts') = PairCount(targetEntries)
                      /\ \A i \in 1..Len(targetEntries) :
                           \A j \in 1..Len(EntryServers(targetEntries[i])) :
                             \E k \in 1..Len(attempts') :
                               /\ attempts'[k].entry = targetEntries[i]
                               /\ attempts'[k].server = EntryServers(targetEntries[i])[j]
    ]_vars

(* C17 witness: an app run of two entries went through every phase and     *)
(* reported.                                                               *)
C17_Witness ==
  /\ pc = "done"
  /\ reported
  /\ ~deployServicesFlag
  /\ targetEntries = <<"web", "api">>
  /\ built = targetEntries
  /\ Len(attempts) = 3

(* C18: in a services run the steps of a pair follow one another as pull,  *)
(* stop, remove, create, prune.  The stop is taken up only from a pull     *)
(* that gave true (after the logout, if a login was made); whatever the    *)
(* stop and the remove give, absence of the container included, the create *)
(* follows on the same pair and no failure is recorded; the create is      *)
(* taken up only from the stop or the remove; the prune is taken up only   *)
(* from a create that left the container running, and a create that failed*)
(* ends the pair FAILED without a prune.                                   *)
C18_ServiceStepsInOrder ==
  [][ deployServicesFlag =>
        /\ (pc' = "svcStop" /\ pc # "svcStop")
              => pc \in {"pull", "logout"} /\ auth'.pulled = "ok" /\ "pull" \in ops'
        /\ pc' = "svcRemove" => pc = "svcStop"
        /\ pc' = "svcCreate" => pc \in {"svcStop", "svcRemove"}
        /\ pc' = "svcPrune" => pc = "svcCreate" /\ svcC'[Entry][Server] = "running"
        /\ pc = "svcStop"
              => /\ pc' \in {"svcRemove", "svcCreate"}
                 /\ svcC[Entry][Server] = "absent" => pc' = "svcCreate"
        /\ pc = "svcRemove" => pc' = "svcCreate"
        /\ pc \in {"svcStop", "svcRemove"}
              => /\ <<ei, si>>' = <<ei, si>>
                 /\ UNCHANGED <<attempts, lastAt, exitCode, fatal>>
                 /\ "stop" \in ops'
        /\ (pc = "svcCreate" /\ pc' # "svcPrune")
              => /\ attempts' = Append(attempts, Verdict("FAILED"))
                 /\ "prune" \in ops' => "prune" \in ops
        /\ "prune" \in ops' \ ops => pc = "svcPrune"
        /\ "create" \in ops' \ ops => pc = "svcCreate"
    ]_vars

(* C18 witness: db on s2, where no container of db existed: the stop       *)
(* failed, the create went through and the prune is next.                  *)
C18_Witness ==
  /\ deployServicesFlag
  /\ pc = "svcPrune"
  /\ Entry = "db" /\ Server = "s2"
  /\ "remove" \notin ops
  /\ svcC["db"]["s2"] = "running"

BlueGreenOrder ==
  <<"PULLING", "STARTING_CANDIDATE", "HEALTH_CHECKING", "CUTTING_OVER",
    "DECOMMISSIONING", "DONE">>

(* C19: in an app run the blue-green state of a pair only moves to the     *)
(* next state of PULLING, STARTING_CANDIDATE, HEALTH_CHECKING,             *)
(* CUTTING_OVER, DECOMMISSIONING, DONE, or from a state before DONE to     *)
(* FAILED; a new pair begins, at PULLING or (no session) at FAILED, only   *)
(* from idle or DONE; FAILED is never left.  A proxy configuration command is issued only after the     *)
(* health verdict passed and while the container of the release before is  *)
(* as it was when the run began: neither stopped nor removed.              *)
C19_BlueGreenOrderAndRouting ==
  [][ ~deployServicesFlag =>
        /\ bg' # bg =>
             \/ \E k \in 1..(Len(BlueGreenOrder) - 1) :
                  bg = BlueGreenOrder[k] /\ bg' = BlueGreenOrder[k + 1]
             \/ bg' = "FAILED" /\ bg \notin {"idle", "DONE"}
             \/ bg' \in {"PULLING", "FAILED"} /\ bg \in {"idle", "DONE"} /\ pc = "connect"
        /\ bg = "FAILED" => bg' = "FAILED"
        /\ (proxyCmds' # proxyCmds /\ proxyCmds' # <<>>) =>
             /\ consec >= HealthThreshold
             /\ appC[Entry][Server][0] =
                  IF DeployedBefore(Entry, Server) THEN "running" ELSE "absent"
    ]_vars

PassedStates == {"CUTTING_OVER", "DECOMMISSIONING", "DONE"}

(* C20: in an app run the health loop makes at most HealthAttempts probes  *)
(* and every step of it makes one more, so it ends whatever the probes     *)
(* give.  The verdict is pass only when the last HealthThreshold probes    *)
(* all succeeded, and fail on health only when HealthAttempts probes were  *)
(* made without that.  The work of the next server starts, and the report  *)
(* is written, only with the blue-green sequence of the pair before at     *)
(* DONE (a FAILED one ends the run).                                       *)
C20_HealthLoopBounded ==
  /\ [](~deployServicesFlag =>
          /\ Len(probes) = attempt
          /\ Len(probes) <= HealthAttempts
          /\ pc = "bgHealth" => Len(probes) < HealthAttempts
          /\ bg \in PassedStates =>
               /\ Len(probes) >= HealthThreshold
               /\ \A k \in (Len(probes) - HealthThreshold + 1)..Len(probes) : probes[k]
          /\ (bg = "FAILED" /\ lastAt = "health") =>
               /\ Len(probes) = HealthAttempts
               /\ \E k \in (Len(probes) - HealthThreshold + 1)..Len(probes) : ~probes[k]
          /\ pc \in {"connect", "report"} => bg \in {"idle", "DONE"}
          /\ (pc = "done" /\ bg \notin {"idle", "DONE"}) => bg = "FAILED" /\ ~reported)
  /\ [][ (~deployServicesFlag /\ pc = "bgHealth") =>
            /\ Len(probes') = Len(probes) + 1
            /\ pc' \in {"bgHealth", "bgCutover", "bgResult"}
            /\ pc' = "bgCutover" <=> bg' = "CUTTING_OVER"
            /\ pc' = "bgResult" <=> bg' = "FAILED"
       ]_vars

(* C20 witness: a success, a failure and a success: the loop ended with    *)
(* the verdict fail after the third probe and the run ended there.         *)
C20_Witness ==
  /\ pc = "done"
  /\ bg = "FAILED"
  /\ lastAt = "health"
  /\ probes = <<TRUE, FALSE, TRUE>>
  /\ Len(attempts) = 1

RECURSIVE PairsOf(_)
PairsOf(entries) ==
  IF entries = <<>> THEN <<>>
  ELSE [j \in 1..Len(EntryServers(Head(entries))) |->
          <<Head(entries), EntryServers(Head(entries))[j]>>]
       \o PairsOf(Tail(entries))

Attempted == [k \in 1..Len(attempts) |-> <<attempts[k].entry, attempts[k].server>>]

(* C21: in a services run no failure of a pair is fatal: the pairs         *)
(* attempted so far are the first pairs of the target list, entry by entry *)
(* and server by server in configured order, the pair at hand is the next  *)
(* one, and a run that passed verification ends only with the report,      *)
(* after every pair was attempted, whatever pairs failed and wherever      *)
(* (connection, pull, logout, create or prune).                            *)
C21_ServiceFailureIsNotFatal ==
  deployServicesFlag =>
    /\ fatal # "deploy"
    /\ Len(attempts) <= PairCount(targetEntries)
    /\ Attempted = SubSeq(PairsOf(targetEntries), 1, Len(attempts))
    /\ (pc = "connect" \/ InPair) =>
         /\ Len(attempts) < PairCount(targetEntries)
         /\ <<Entry, Server>> = PairsOf(targetEntries)[Len(attempts) + 1]
    /\ (pc \in {"report", "done"} /\ fatal = "") =>
         Len(attempts) = PairCount(targetEntries)
    /\ (pc = "done" /\ fatal = "") => reported

(* C21 witness: all services were targeted; the first pair failed at the   *)
(* connection, the second at the pull, the third at the create, and the    *)
(* run went on to report.                                                  *)
C21_Witness ==
  /\ deployServicesFlag
  /\ targetEntries = <<"db", "cache">>
  /\ pc = "done"
  /\ reported
  /\ Len(attempts) = 3
  /\ attempts[1].verdict = "FAILED"
  /\ attempts[2].verdict = "FAILED"
  /\ attempts[3] = [entry |-> "cache", server |-> "s1", verdict |-> "FAILED"]
  /\ lastAt = "create"
  /\ svcC["db"]["s1"] = "running"

ContainerOps == {"create", "stop", "remove", "proxy", "prune"}

(* C22: a pair whose pull did not give true changes no container and       *)
(* issues no proxy command.  Between the opening of a pair's session and   *)
(* the end of its pull bracket no step changes a container, the current    *)
(* release of an app or the proxy, or issues a create, stop, remove, proxy *)
(* or prune command; any step that does so belongs to a pair whose pull    *)
(* gave true; and after a pull that gave false or raised an error the only *)
(* step left in the pair is the logout, after which the pair ends FAILED.  *)
C22_FailedPullChangesNothing ==
  [][ /\ ( \/ <<appC, svcC, current>>' # <<appC, svcC, current>>
           \/ proxyCmds' \notin {proxyCmds, <<>>}
           \/ proxied' # proxied
           \/ (ops' \ ops) \cap ContainerOps # {} )
         => /\ InPair
            /\ pc \notin {"auth", "pull", "logout"}
            /\ auth.pulled = "ok"
      /\ (InPair /\ auth.pulled \in {"fail", "throw"})
         => /\ pc = "logout"
            /\ attempts' = Append(attempts, Verdict("FAILED"))
            /\ lastAt' \in {"pull", "logout"}
      /\ (pc = "pull" /\ auth'.pulled \in {"fail", "throw"})
         => \/ pc' = "logout"
            \/ attempts' = Append(attempts, Verdict("FAILED")) /\ lastAt' = "pull"
    ]_vars

(* C22 witness: the pull of web failed on s1 after a login; the logout     *)
(* was made, the pair ended FAILED, and every container is as it was.      *)
C22_Witness ==
  /\ ~deployServicesFlag
  /\ pc = "done"
  /\ lastAt = "pull"
  /\ auth.performed /\ auth.pulled = "fail"
  /\ attempts = <<[entry |-> "web", server |-> "s1", verdict |-> "FAILED"]>>
  /\ ops \cap ContainerOps = {}
  /\ appC["web"]["s1"][0] = "running" /\ appC["web"]["s1"][1] = "absent"

(* C23: at every point of a run at most one remote session is open: the    *)
(* verifier's for the host at hand or the deployment's for the pair at     *)
(* hand; no session is open when the next host or pair is taken up; and    *)
(* the pairs are taken up entry by entry in target order, the servers of   *)
(* an entry in configured order.                                           *)
C23_OneSessionAtATime ==
  /\ Cardinality(sess) <= 1
  /\ pc \in {"verify", "connect", "build", "push", "report"} => sess = {}
  /\ (pc \in VerifyPcs /\ sess # {}) => sess = {<<"verify", hosts[vi]>>}
  /\ (InPair /\ sess # {}) => sess = {Sid}
  /\ Len(attempts) <= PairCount(targetEntries)
  /\ \A k \in 1..Len(attempts) :
       <<attempts[k].entry, attempts[k].server>> = PairsOf(targetEntries)[k]
  /\ InPair => <<Entry, Server>> = PairsOf(targetEntries)[Len(attempts) + 1]

(* C23 witness: web was deployed to s1 and s2, and the one open session is *)
(* that of api on s2.                                                      *)
C23_Witness ==
  /\ targetEntries = <<"web", "api">>
  /\ pc = "pull"
  /\ Len(attempts) = 2
  /\ attempts[2] = [entry |-> "web", server |-> "s2", verdict |-> "DONE"]
  /\ sess = {<<"deploy", "api", "s2">>}

NoRepeat(seq) == \A i, j \in 1..Len(seq) : seq[i] = seq[j] => i = j

(* C25: the resolved target list names no entry twice, whatever names were *)
(* passed; hence no entry is built and pushed twice and no (entry, server) *)
(* pair is attempted twice in one run.                                     *)
C25_EachEntryTargetedOnce ==
  /\ NoRepeat(targetEntries)
  /\ NoRepeat(built)
  /\ NoRepeat([k \in 1..Len(attempts) |-> <<attempts[k].entry, attempts[k].server>>])

(* C26: a logout is the next step only after a login that ended clean or   *)
(* with nothing but the unencrypted-store notice, in the same pull         *)
(* bracket; a login that failed otherwise is followed by no logout; and    *)
(* when no credentials are resolved or the password secret is absent,      *)
(* there is neither login nor logout and the pull is still made.           *)
C26_LogoutOnlyAfterSuccessfulLogin ==
  /\ pc = "logout" => auth.performed /\ auth.login \in {"ok", "warn"}
  /\ (InPair /\ auth.login = "fail") => pc # "logout"
  /\ (InPair /\ pc # "auth" /\ ~AuthPlan(Entry).login) =>
       /\ ~auth.performed /\ auth.login = "none"
       /\ pc # "logout"
       /\ pc = "pull" \/ auth.pulled # NoVal

====
